---------------------------- MODULE Spec2Model ----------------------------
(* Model of custom_components/enphase_envoy/config_flow.py: the setup     *)
(* flow (ConfigFlow: discovery, user form, reauth) over the host's entry  *)
(* store, and the options flow (EnvoyOptionsFlowHandler).                 *)
(*                                                                        *)
(* A step of a flow is split where the code awaits the device client      *)
(* (get_data, get_full_serial_number); between two awaits a step runs     *)
(* without interruption (single-threaded cooperative execution).          *)
(* The host engine's own bookkeeping of flows in progress is not part of  *)
(* this file's code and is not modelled; its entry-store primitives are   *)
(* modelled by what the calls in this file rely on.                       *)
EXTENDS Naturals, Sequences, FiniteSets, TLC

VARIABLES
    entries,   \* the host's entry store for this domain, in enumeration order
    flows,     \* the setup flows in progress: instance fields and position
    result,    \* the FlowResult of the most recent step, with the step's input
    calls,     \* the host/device calls made by the most recent step, in order
    options    \* config_entry.options of the entry the options flow edits

vars == <<entries, flows, result, calls, options>>

-----------------------------------------------------------------------------
(* Bounds of the model *)

MaxEntries == 2
MaxFlows == 2

Flows == 1..MaxFlows

(* Python's None *)
None == "None"

(* Universe of addresses and serial numbers *)
IPv4Hosts == {"192.168.1.10", "192.168.1.11"}
IPv6Hosts == {"fe80::1", "fe80::2"}
HostNames == {"envoy.local"}
Hosts == IPv4Hosts \cup IPv6Hosts \cup HostNames
(* addresses the user types, addresses discovery announces *)
TypedHosts == {"192.168.1.10", "192.168.1.11", "fe80::1", "envoy.local"}
DiscoveryHosts == {"192.168.1.11", "fe80::2"}
Serials == {"S1", "S2"}
Usernames == {"u1"}
Passwords == {"pw"}

-----------------------------------------------------------------------------
(* Constants of the source *)

ENVOY == "Envoy"
CONF_HOST == "host"
CONF_NAME == "name"
CONF_PASSWORD == "password"
CONF_USERNAME == "username"
CONF_SERIAL == "serial"

SOURCE_USER == "user"
SOURCE_ZEROCONF == "zeroconf"
SOURCE_REAUTH == "reauth"
SOURCE_IGNORE == "ignore"

is_ipv4_address(h) == h \in IPv4Hosts
is_ipv6_address(h) == h \in IPv6Hosts

(* f"{ENVOY} {serial}" *)
EnvoyTitle(serial) == ENVOY \o " " \o serial

-----------------------------------------------------------------------------
(* Mappings (Python dicts) as functions *)

EmptyDict == [k \in {} |-> None]

(* {**d, **u} *)
Merge(d, u) == [k \in (DOMAIN d) \cup (DOMAIN u) |-> IF k \in DOMAIN u THEN u[k] ELSE d[k]]

UserInput(h, s, u, p) ==
    [k \in {CONF_HOST, CONF_SERIAL, CONF_USERNAME, CONF_PASSWORD} |->
        CASE k = CONF_HOST -> h
          [] k = CONF_SERIAL -> s
          [] k = CONF_USERNAME -> u
          [] OTHER -> p]

TypedSerials == {"S1"}

UserInputs ==
    {UserInput(h, s, u, p) : h \in TypedHosts, s \in TypedSerials, u \in Usernames, p \in Passwords}

-----------------------------------------------------------------------------
(* The entry store (host engine), as this file uses it *)

(* A config entry; of its source the store keeps here what the flow reads *)
(* of it: whether it is SOURCE_IGNORE.                                    *)
ConfigEntry(eid, uid, src, title, data) ==
    [entry_id |-> eid, unique_id |-> uid, ignored |-> (src = SOURCE_IGNORE),
     title |-> title, data |-> data]

(* self._async_current_entries(include_ignore=...): entries in store order *)
async_current_entries(include_ignore) ==
    SelectSeq(entries, LAMBDA e : include_ignore \/ ~e.ignored)

(* self._async_current_hosts() *)
async_current_hosts ==
    LET es == async_current_entries(FALSE)
    IN {es[i].data[CONF_HOST] : i \in {j \in 1..Len(es) : CONF_HOST \in DOMAIN es[j].data}}

EntryIds(es) == {es[i].entry_id : i \in 1..Len(es)}

Range(es) == {es[i] : i \in 1..Len(es)}

(* hass.config_entries.async_get_entry(entry_id) *)
async_get_entry(es, eid) == es[CHOOSE i \in 1..Len(es) : es[i].entry_id = eid]

(* An update that does not single out its entry *)
async_update_entry_EveryEntry(es, eid, changes) ==
    [i \in 1..Len(es) |-> Merge(es[i], changes)]

(* hass.config_entries.async_update_entry(entry, **changes): the named     *)
(* fields of that entry are replaced, every other entry is left alone.    *)
async_update_entry(es, eid, changes) ==
    [i \in 1..Len(es) |-> IF es[i].entry_id = eid THEN Merge(es[i], changes) ELSE es[i]]

(* The first entry with that unique id, ignored ones included; 0 if none  *)
async_entry_for_domain_unique_id(es, uid) ==
    LET S == {i \in 1..Len(es) : es[i].unique_id = uid}
    IN IF S = {} THEN 0 ELSE CHOOSE i \in S : \A j \in S : i <= j

NewEntryId(es) == CHOOSE n \in 1..(Len(es) + 1) : n \notin EntryIds(es)

(* A call made by a step: the function, the entry it is on (0: none) and  *)
(* the keyword arguments it passes                                        *)
Call(fn, eid, kw) == [fn |-> fn, entry_id |-> eid, kw |-> kw]

-----------------------------------------------------------------------------
(* Flow instances *)

(* ConfigFlow.__init__: ip_address, username, _reauth_entry are None;     *)
(* unique_id is the flow context's unique id; reauth_entry 0 is None.     *)
IdleFlow ==
    [pc |-> "idle", source |-> None, unique_id |-> None, ip_address |-> None,
     username |-> None, reauth_entry |-> 0, user_input |-> EmptyDict]

NewFlow(src) == [IdleFlow EXCEPT !.pc = "form", !.source = src]

(* The engine gives a new flow the next free flow id *)
FreeFlow(f) == flows[f].pc = "idle" /\ \A g \in Flows : g < f => flows[g].pc # "idle"

(* The schema with the host field left free *)
async_generate_schema_Unlocked(fl) ==
    [host_default |-> IF fl.ip_address # None THEN fl.ip_address ELSE None,
     host_in |-> Hosts,
     serial_default |-> fl.unique_id,
     username_default |-> fl.username,
     password_default |-> ""]

(* ConfigFlow._async_generate_schema *)
async_generate_schema(fl) ==
    [host_default |-> IF fl.ip_address # None THEN fl.ip_address ELSE None,
     host_in |-> IF fl.ip_address # None THEN {fl.ip_address} ELSE Hosts,
     serial_default |-> fl.unique_id,
     username_default |-> fl.username,
     password_default |-> ""]

(* The name without the unique id *)
async_envoy_name_Generic(uid) == ENVOY

(* ConfigFlow._async_envoy_name *)
async_envoy_name(uid) == IF uid # None /\ uid # "" THEN EnvoyTitle(uid) ELSE ENVOY

(* FlowResult values *)
FlowResult(op, type, reason, errors, schema) ==
    [op |-> op, type |-> type, reason |-> reason, errors |-> errors, schema |-> schema]

async_abort(op, reason) ==
    FlowResult(op, "abort", reason, EmptyDict, EmptyDict)

(* async_step_user, lines 210-219: the form with the generated schema *)
async_show_form(op, fl, errors) ==
    FlowResult(op, "form", None, errors, async_generate_schema(fl))

-----------------------------------------------------------------------------
(* ConfigFlow.async_step_zeroconf *)

(* The address comparison left out *)
SameIpVersion_Any(a, b) == TRUE

(* lines 113-119 *)
SameIpVersion(a, b) ==
    \/ is_ipv4_address(a) /\ is_ipv4_address(b)
    \/ is_ipv6_address(a) /\ is_ipv6_address(b)

MatchesUniqueId(e, serial) == e.unique_id = serial

MatchesHost(e, ip) ==
    /\ e.unique_id = None
    /\ CONF_HOST \in DOMAIN e.data
    /\ e.data[CONF_HOST] = ip

(* The loop of lines 109-141 returns at the first entry, in enumeration   *)
(* order, that satisfies either branch; 0 when the loop falls through.    *)
FirstMatch(es, serial, ip) ==
    LET S == {i \in 1..Len(es) : MatchesUniqueId(es[i], serial) \/ MatchesHost(es[i], ip)}
    IN IF S = {} THEN 0 ELSE CHOOSE i \in S : \A j \in S : i <= j

(* What the loop does: the reconciliation action and the entry it is on *)
Reconcile(es, serial, ip) ==
    LET i == FirstMatch(es, serial, ip)
    IN IF i = 0 THEN [kind |-> "none", entry_id |-> 0]
       ELSE IF MatchesUniqueId(es[i], serial)
       THEN IF es[i].data[CONF_HOST] # ip /\ SameIpVersion(es[i].data[CONF_HOST], ip)
            THEN [kind |-> "update_host", entry_id |-> es[i].entry_id]
            ELSE [kind |-> "abort", entry_id |-> es[i].entry_id]
       ELSE [kind |-> "attach_id", entry_id |-> es[i].entry_id]

(* The backfill that always gives the name without the unique id *)
BackfillTitle_Generic(title, serial) == ENVOY

(* The backfill without the renaming *)
BackfillTitle_Unchanged(title, serial) == title

(* line 134 *)
BackfillTitle(title, serial) == IF title = ENVOY THEN EnvoyTitle(serial) ELSE ENVOY

async_step_zeroconf(f, serial, host) ==
    /\ FreeFlow(f)
    /\ LET fl == [NewFlow(SOURCE_ZEROCONF) EXCEPT !.unique_id = serial, !.ip_address = host]
           r == Reconcile(async_current_entries(FALSE), serial, host)
       IN CASE r.kind = "update_host" ->
                 /\ entries' = async_update_entry(entries, r.entry_id,
                        [data |-> Merge(async_get_entry(entries, r.entry_id).data,
                                        [k \in {CONF_HOST} |-> host])])
                 /\ calls' = <<Call("async_update_entry", r.entry_id, {"data"}),
                               Call("async_reload", r.entry_id, {})>>
                 /\ result' = async_abort("zeroconf", "already_configured")
                 /\ UNCHANGED flows
            [] r.kind = "abort" ->
                 /\ calls' = <<>>
                 /\ result' = async_abort("zeroconf", "already_configured")
                 /\ UNCHANGED <<entries, flows>>
            [] r.kind = "attach_id" ->
                 /\ entries' = async_update_entry(entries, r.entry_id,
                        [title |-> BackfillTitle(async_get_entry(entries, r.entry_id).title, serial),
                         unique_id |-> serial])
                 /\ calls' = <<Call("async_update_entry", r.entry_id, {"title", "unique_id"}),
                               Call("async_reload", r.entry_id, {})>>
                 /\ result' = async_abort("zeroconf", "already_configured")
                 /\ UNCHANGED flows
            [] OTHER ->
                 /\ flows' = [flows EXCEPT ![f] = fl]
                 /\ calls' = <<>>
                 /\ result' = async_show_form("zeroconf", fl, EmptyDict)
                 /\ UNCHANGED entries
    /\ UNCHANGED options

-----------------------------------------------------------------------------
(* ConfigFlow.async_step_reauth: the engine starts it for a configured    *)
(* entry, with that entry's id and unique id in the flow context, and at  *)
(* most one reauth flow per entry.                                        *)

async_step_reauth(f, eid) ==
    /\ FreeFlow(f)
    /\ eid \in EntryIds(async_current_entries(FALSE))
    /\ \A g \in Flows : flows[g].reauth_entry # eid
    /\ LET fl == [NewFlow(SOURCE_REAUTH) EXCEPT
                     !.unique_id = async_get_entry(entries, eid).unique_id,
                     !.reauth_entry = eid]
       IN /\ flows' = [flows EXCEPT ![f] = fl]
          /\ calls' = <<>>
          /\ result' = async_show_form("reauth", fl, EmptyDict)
    /\ UNCHANGED <<entries, options>>

-----------------------------------------------------------------------------
(* ConfigFlow.async_step_user *)

(* A flow started by the user: the step is called with no input *)
async_step_user_init(f) ==
    /\ FreeFlow(f)
    /\ LET fl == NewFlow(SOURCE_USER)
       IN /\ flows' = [flows EXCEPT ![f] = fl]
          /\ calls' = <<>>
          /\ result' = async_show_form("user", fl, EmptyDict)
    /\ UNCHANGED <<entries, options>>

(* The duplicate-host check with the reauth condition inverted *)
DuplicateHost_ReauthOnly(fl, user_input) ==
    fl.reauth_entry # 0 /\ user_input[CONF_HOST] \in async_current_hosts

(* lines 174-179: the duplicate-host check of a submission *)
DuplicateHost(fl, user_input) ==
    fl.reauth_entry = 0 /\ user_input[CONF_HOST] \in async_current_hosts

(* Submission of the form, up to the await of the validation call. The    *)
(* engine accepts only input the schema of the form allows.               *)
async_step_user(f, user_input) ==
    /\ flows[f].pc = "form"
    /\ user_input[CONF_HOST] \in async_generate_schema(flows[f]).host_in
    /\ IF DuplicateHost(flows[f], user_input)
       THEN /\ flows' = [flows EXCEPT ![f] = IdleFlow]
            /\ calls' = <<>>
            /\ result' = async_abort("user", "already_configured")
       ELSE /\ flows' = [flows EXCEPT ![f].pc = "validating", ![f].user_input = user_input]
            /\ calls' = <<Call("get_data", 0, {})>>
            /\ result' = FlowResult("user", "pending", None, EmptyDict, EmptyDict)
    /\ UNCHANGED <<entries, options>>

(* validate_input and the except clauses of lines 182-188: what          *)
(* envoy_reader.get_data() raised -> the error code of the form           *)
GetDataOutcomes == {"ok", "EnlightenError", "EnvoyError", "ConnectError", "Exception"}

(* The except clauses with EnvoyError left out of the connection failures *)
ValidationError_ConnectOnly(outcome) ==
    CASE outcome = "EnlightenError" -> "invalid_auth"
      [] outcome = "ConnectError" -> "cannot_connect"
      [] OTHER -> "unknown"

ValidationError(outcome) ==
    CASE outcome = "EnlightenError" -> "invalid_auth"
      [] outcome \in {"EnvoyError", "ConnectError"} -> "cannot_connect"
      [] OTHER -> "unknown"

(* self._abort_if_unique_id_configured({CONF_HOST: host}): the entry      *)
(* with the flow's unique id, if any, gets the updates (and a reload when *)
(* they changed it) and the flow aborts, unless the entry is an ignored   *)
(* one and the flow was started by the user.                              *)
abort_if_unique_id_configured(es, fl, uid, updates) ==
    LET i == async_entry_for_domain_unique_id(es, uid)
    IN IF uid = None \/ i = 0
       THEN [entries |-> es, calls |-> <<>>, abort |-> FALSE]
       ELSE LET e == es[i]
                data == Merge(e.data, updates)
                allowed == e.ignored /\ fl.source = SOURCE_USER
            IN [entries |-> async_update_entry(es, e.entry_id, [data |-> data]),
                calls |-> <<Call("async_update_entry", e.entry_id, {"data"})>> \o
                          (IF data # e.data /\ ~allowed
                           THEN <<Call("async_reload", e.entry_id, {})>> ELSE <<>>),
                abort |-> ~allowed]

(* self.async_create_entry(title, data): the engine stores a new entry    *)
(* with the flow's unique id and source, in place of an entry that had    *)
(* that unique id.                                                        *)
async_create_entry(es, fl, uid, title, data) ==
    LET kept == SelectSeq(es, LAMBDA e : uid = None \/ e.unique_id # uid)
    IN Append(kept, ConfigEntry(NewEntryId(kept), uid, fl.source, title, data))

(* lines 205-208, with the flow's unique id uid and entry data `data` *)
FinishUser(f, op, uid, data) ==
    LET fl == flows[f]
        a == abort_if_unique_id_configured(entries, fl, uid, [k \in {CONF_HOST} |-> data[CONF_HOST]])
        created == async_create_entry(a.entries, fl, uid, data[CONF_NAME], data)
    IN /\ flows' = [flows EXCEPT ![f] = IdleFlow]
       /\ IF a.abort
          THEN /\ entries' = a.entries
               /\ calls' = a.calls
               /\ result' = async_abort(op, "already_configured")
          ELSE /\ Len(created) <= MaxEntries
               /\ entries' = created
               /\ calls' = a.calls \o <<Call("async_create_entry", created[Len(created)].entry_id, {"title", "data"})>>
               /\ result' = FlowResult(op, "create_entry", None, EmptyDict, EmptyDict)

(* lines 190-191 *)
EntryData(user_input, uid) ==
    Merge(user_input, [k \in {CONF_NAME} |-> async_envoy_name(uid)])

(* A reauth that refreshes the credentials only *)
ReauthUpdate_CredentialsOnly(es, fl, data) ==
    async_update_entry(es, fl.reauth_entry,
        [data |-> Merge(async_get_entry(es, fl.reauth_entry).data,
                        [k \in {CONF_USERNAME, CONF_PASSWORD} |-> data[k]])])

(* lines 193-197: the reauth target's data is replaced *)
ReauthUpdate(es, fl, data) == async_update_entry(es, fl.reauth_entry, [data |-> data])

(* The validation call returns or raises: lines 181-208 up to the await   *)
(* of the serial fetch.                                                   *)
validate_input(f, outcome) ==
    /\ flows[f].pc = "validating"
    /\ LET fl == flows[f]
           data == EntryData(fl.user_input, fl.unique_id)
       IN IF outcome # "ok"
          THEN /\ flows' = [flows EXCEPT ![f].pc = "form", ![f].user_input = EmptyDict]
               /\ calls' = <<>>
               /\ result' = async_show_form("validate", flows[f], [k \in {"base"} |-> ValidationError(outcome)])
               /\ UNCHANGED entries
          ELSE IF fl.reauth_entry # 0
          THEN /\ entries' = ReauthUpdate(entries, fl, data)
               /\ flows' = [flows EXCEPT ![f] = IdleFlow]
               /\ calls' = <<Call("async_update_entry", fl.reauth_entry, {"data"})>>
               /\ result' = async_abort("validate", "reauth_successful")
          ELSE IF fl.unique_id = None
          THEN /\ flows' = [flows EXCEPT ![f].pc = "fetching"]
               /\ calls' = <<Call("get_full_serial_number", 0, {})>>
               /\ result' = FlowResult("validate", "pending", None, EmptyDict, EmptyDict)
               /\ UNCHANGED entries
          ELSE FinishUser(f, "validate", fl.unique_id, data)
    /\ UNCHANGED options

(* ConfigFlow._async_set_unique_id_from_envoy: what the serial fetch      *)
(* returned (a serial, an empty value) or that it raised httpx.HTTPError, *)
(* the transport error of the device client; the unique id it leaves the  *)
(* flow with.                                                             *)
SerialFailures == {"HTTPError"}

SerialOutcomes == Serials \cup {""} \cup SerialFailures

(* A fetch whose failures are not suppressed *)
Suppressed_Nothing(outcome) == FALSE

(* line 161: contextlib.suppress(httpx.HTTPError) *)
Suppressed(outcome) == outcome = "HTTPError"

FetchedSerial(outcome) == IF outcome \in SerialFailures THEN None ELSE outcome

set_unique_id_from_envoy(uid, outcome) ==
    LET serial == FetchedSerial(outcome)
    IN IF serial # None /\ serial # "" THEN serial ELSE uid

(* An exception leaves the step: the engine hands it to the caller and    *)
(* the flow stays at its form.                                            *)
Propagate(f, op, exception) ==
    /\ flows' = [flows EXCEPT ![f].pc = "form", ![f].user_input = EmptyDict]
    /\ calls' = <<>>
    /\ result' = FlowResult(op, "exception", exception, EmptyDict, EmptyDict)
    /\ UNCHANGED entries

(* The serial fetch returns or raises: lines 200-208 *)
async_set_unique_id_from_envoy(f, outcome) ==
    /\ flows[f].pc = "fetching"
    /\ IF outcome \in SerialFailures /\ ~Suppressed(outcome)
       THEN Propagate(f, "fetch", outcome)
       ELSE LET uid == set_unique_id_from_envoy(flows[f].unique_id, outcome)
            IN FinishUser(f, "fetch", uid, EntryData(flows[f].user_input, uid))
    /\ UNCHANGED options

-----------------------------------------------------------------------------
(* The setup flow over the entry store *)

IgnoredEntry(serial) == ConfigEntry(1, serial, SOURCE_IGNORE, ENVOY, EmptyDict)

(* The store before any flow ran: empty, or holding a discovery the user  *)
(* chose to ignore.                                                       *)
InitialStores == {<<>>, <<IgnoredEntry("S1")>>}

NoResult == FlowResult("none", "none", None, EmptyDict, EmptyDict)

Init ==
    /\ entries \in InitialStores
    /\ flows = [f \in Flows |-> IdleFlow]
    /\ result = NoResult
    /\ calls = <<>>
    /\ options = EmptyDict

(* No step is suspended at an await: every flow is idle or shows its form *)
NoStepRunning == \A g \in Flows : flows[g].pc \in {"idle", "form"}

(* Sequences of discovery events and submissions: a step runs to its end  *)
(* (the device answering the calls it awaits) before the next event is    *)
(* handled; several flows may show their form at once.                    *)
Next ==
    \/ \E f \in Flows, s \in Serials, h \in DiscoveryHosts :
          NoStepRunning /\ async_step_zeroconf(f, s, h)
    \/ \E f \in Flows, e \in 1..MaxEntries : NoStepRunning /\ async_step_reauth(f, e)
    \/ \E f \in Flows : NoStepRunning /\ async_step_user_init(f)
    \/ \E f \in Flows, ui \in UserInputs : NoStepRunning /\ async_step_user(f, ui)
    \/ \E f \in Flows, o \in GetDataOutcomes : validate_input(f, o)
    \/ \E f \in Flows, o \in SerialOutcomes : async_set_unique_id_from_envoy(f, o)

Spec == Init /\ [][Next]_vars

(* The same sequences over a store that starts empty *)
InitEmpty ==
    /\ entries = <<>>
    /\ flows = [f \in Flows |-> IdleFlow]
    /\ result = NoResult
    /\ calls = <<>>
    /\ options = EmptyDict

SpecFromEmpty == InitEmpty /\ [][Next]_vars

(* Steps of different flows interleave at their awaits *)
NextAsync ==
    \/ \E f \in Flows, s \in Serials, h \in DiscoveryHosts : async_step_zeroconf(f, s, h)
    \/ \E f \in Flows, e \in 1..MaxEntries : async_step_reauth(f, e)
    \/ \E f \in Flows : async_step_user_init(f)
    \/ \E f \in Flows, ui \in UserInputs : async_step_user(f, ui)
    \/ \E f \in Flows, o \in GetDataOutcomes : validate_input(f, o)
    \/ \E f \in Flows, o \in SerialOutcomes : async_set_unique_id_from_envoy(f, o)

SpecAsync == Init /\ [][NextAsync]_vars

(* Flows started by the user only, their steps interleaving at the awaits *)
NextUserFlows ==
    \/ \E f \in Flows : async_step_user_init(f)
    \/ \E f \in Flows, ui \in UserInputs : async_step_user(f, ui)
    \/ \E f \in Flows, o \in GetDataOutcomes : validate_input(f, o)
    \/ \E f \in Flows, o \in SerialOutcomes : async_set_unique_id_from_envoy(f, o)

SpecUserFlows == Init /\ [][NextUserFlows]_vars

-----------------------------------------------------------------------------
(* EnvoyOptionsFlowHandler *)

(* envoy_endpoints.ENVOY_ENDPOINTS: endpoint key -> descriptor with an    *)
(* "optional" flag                                                        *)
ENVOY_ENDPOINTS ==
    [k \in {"production_json", "devstatus", "pdm_energy"} |->
        [optional |-> k # "production_json"]]

EndpointName(key) == "endpoint_" \o key

(* lines 240-244: the selectable choices, f"endpoint_{key}" -> key *)
optional_endpoints ==
    LET keys == {k \in DOMAIN ENVOY_ENDPOINTS : ENVOY_ENDPOINTS[k].optional}
    IN [n \in {EndpointName(k) : k \in keys} |->
           CHOOSE k \in keys : EndpointName(k) = n]

(* dict.get(key, default) *)
Get(d, k, default) == IF k \in DOMAIN d THEN d[k] ELSE default

(* The stored selection passed on without the filter *)
disabled_endpoints_Unfiltered(opts) == Get(opts, "disabled_endpoints", {})

(* lines 245-249: the pre-selected disabled endpoints *)
disabled_endpoints(opts) ==
    Get(opts, "disabled_endpoints", {}) \cap DOMAIN optional_endpoints

(* The defaults imported from const.py *)
DEFAULT_SCAN_INTERVAL == 60
DEFAULT_GETDATA_TIMEOUT == 60
DEFAULT_REALTIME_UPDATE_THROTTLE == 10
ENABLE_ADDITIONAL_METRICS == "enable_additional_metrics"

(* lines 251-302: every option of the form with its default *)
OptionDefaults ==
    [k \in {"time_between_update", "getdata_timeout", "disable_negative_production",
            "enable_realtime_updates", "realtime_update_throttle",
            ENABLE_ADDITIONAL_METRICS, "enable_pcu_comm_check",
            "devstatus_device_data", "lifetime_production_correction"} |->
        CASE k = "time_between_update" -> DEFAULT_SCAN_INTERVAL
          [] k = "getdata_timeout" -> DEFAULT_GETDATA_TIMEOUT
          [] k = "realtime_update_throttle" -> DEFAULT_REALTIME_UPDATE_THROTTLE
          [] k = "lifetime_production_correction" -> 0
          [] OTHER -> FALSE]

OptionsSchema(opts) ==
    [defaults |-> [k \in DOMAIN OptionDefaults |-> Get(opts, k, OptionDefaults[k])],
     suggested_disabled_endpoints |-> disabled_endpoints(opts),
     selectable_endpoints |-> DOMAIN optional_endpoints]

(* What the form can submit: a value for every option with a default, in  *)
(* the range its validator allows, and optionally a selection among the   *)
(* selectable endpoints.                                                  *)
OptionChoices(k) ==
    CASE k = "time_between_update" -> {5, DEFAULT_SCAN_INTERVAL}
      [] k = "lifetime_production_correction" -> {0 - 3, 0}
      [] OTHER -> BOOLEAN

OptionInput(tbu, dnp, ert, lpc) ==
    [k \in DOMAIN OptionDefaults |->
        CASE k = "time_between_update" -> tbu
          [] k = "disable_negative_production" -> dnp
          [] k = "enable_realtime_updates" -> ert
          [] k = "lifetime_production_correction" -> lpc
          [] OTHER -> OptionDefaults[k]]

OptionInputs ==
    LET base == {OptionInput(tbu, dnp, ert, lpc) :
                    tbu \in OptionChoices("time_between_update"),
                    dnp \in OptionChoices("disable_negative_production"),
                    ert \in OptionChoices("enable_realtime_updates"),
                    lpc \in OptionChoices("lifetime_production_correction")}
    IN base \cup {Merge(o, [k \in {"disabled_endpoints"} |-> sel]) :
                     o \in base, sel \in SUBSET DOMAIN optional_endpoints}

(* async_step_init / async_step_user with no input: the form is shown *)
options_async_step_init ==
    /\ calls' = <<>>
    /\ result' = FlowResult("options", "form", None, EmptyDict, OptionsSchema(options))
    /\ UNCHANGED <<entries, flows, options>>

(* The submission merged into the earlier record *)
options_async_step_user_Merged(user_input) ==
    /\ options' = Merge(options, user_input)
    /\ calls' = <<Call("async_update_entry", entries[1].entry_id, {"options"})>>
    /\ result' = FlowResult("options", "create_entry", None, EmptyDict, EmptyDict)
    /\ UNCHANGED <<entries, flows>>

(* async_step_user with input: async_create_entry(title="", data=input),  *)
(* which the engine stores as the entry's options.                        *)
options_async_step_user(user_input) ==
    /\ options' = user_input
    /\ calls' = <<Call("async_update_entry", entries[1].entry_id, {"options"})>>
    /\ result' = FlowResult("options", "create_entry", None, EmptyDict, EmptyDict)
    /\ UNCHANGED <<entries, flows>>

(* The options of an entry before its options flow runs: none yet, or a   *)
(* record written under an older endpoint catalog and option set.         *)
LegacyOptions ==
    [k \in {"time_between_update", "disabled_endpoints", "scan_inverters"} |->
        CASE k = "time_between_update" -> 30
          [] k = "disabled_endpoints" -> {"endpoint_devstatus", "endpoint_production_json"}
          [] OTHER -> TRUE]

OptionsInit ==
    /\ entries = <<ConfigEntry(1, "S1", SOURCE_USER, EnvoyTitle("S1"),
                      EntryData(UserInput("192.168.1.10", "S1", "u1", "pw"), "S1"))>>
    /\ flows = [f \in Flows |-> IdleFlow]
    /\ result = NoResult
    /\ calls = <<>>
    /\ options \in {EmptyDict, LegacyOptions}

OptionsNext ==
    \/ options_async_step_init
    \/ \E ui \in OptionInputs : options_async_step_user(ui)

OptionsSpec == OptionsInit /\ [][OptionsNext]_vars

-----------------------------------------------------------------------------
(* Properties of the entry store *)

ConfiguredIn(es) == {i \in 1..Len(es) : ~es[i].ignored}

Configured == ConfiguredIn(entries)

HasUniqueId(e) == e.unique_id # None /\ e.unique_id # ""

(* C1: no two non-ignored configured entries have the same non-empty      *)
(* unique id, after any sequence of discovery events, user-form           *)
(* submissions and reauth submissions.                                    *)
C1_UniqueIdClaimedOnce ==
    \A i, j \in Configured :
        (i # j /\ HasUniqueId(entries[i])) => entries[i].unique_id # entries[j].unique_id

(* C8: no two non-ignored entries that have no unique id share the same   *)
(* stored host, after any sequence of discovery events, user-form         *)
(* submissions and reauth submissions.                                    *)
C8_IdlessHostClaimedOnce ==
    \A i, j \in Configured :
        (/\ i # j
         /\ entries[i].unique_id = None /\ entries[j].unique_id = None
         /\ CONF_HOST \in DOMAIN entries[i].data /\ CONF_HOST \in DOMAIN entries[j].data)
        => entries[i].data[CONF_HOST] # entries[j].data[CONF_HOST]

-----------------------------------------------------------------------------
(* Properties of the discovery step *)

(* The configured (non-ignored) entries a discovery event is about *)
OwnersOf(serial) == {i \in Configured : entries[i].unique_id = serial}

IdlessAt(host) ==
    {i \in Configured : /\ entries[i].unique_id = None
                        /\ CONF_HOST \in DOMAIN entries[i].data
                        /\ entries[i].data[CONF_HOST] = host}

BothIPv4OrBothIPv6(a, b) ==
    \/ a \in IPv4Hosts /\ b \in IPv4Hosts
    \/ a \in IPv6Hosts /\ b \in IPv6Hosts

Requested(cs, fn, eid) == \E n \in 1..Len(cs) : cs[n].fn = fn /\ cs[n].entry_id = eid

AbortedAlreadyConfigured(r) == r.type = "abort" /\ r.reason = "already_configured"

(* The discovery step acted and ended the flow without a form or an entry *)
DiscoveryAborted(f) ==
    /\ AbortedAlreadyConfigured(result')
    /\ flows'[f].pc = "idle"
    /\ Len(entries') = Len(entries)

(* C2: a discovery event (S, H) on a store holding a non-ignored entry    *)
(* with unique id S sets that entry's host to H and requests its reload   *)
(* when the stored host differs from H and both are IPv4 or both IPv6,    *)
(* and always ends the flow aborted as already_configured.                *)
C2_DiscoveryUpdatesHost ==
    [][\A f \in Flows, s \in Serials, h \in DiscoveryHosts :
          (async_step_zeroconf(f, s, h) /\ OwnersOf(s) # {}) =>
             /\ DiscoveryAborted(f)
             /\ \A i \in OwnersOf(s) :
                   (/\ entries[i].data[CONF_HOST] # h
                    /\ BothIPv4OrBothIPv6(entries[i].data[CONF_HOST], h))
                   => /\ entries'[i].data[CONF_HOST] = h
                      /\ Requested(calls', "async_reload", entries[i].entry_id)]_vars

(* C3 as claimed: a discovery event (S, H) that matches by host a         *)
(* non-ignored entry with no unique id gives that entry the unique id S,  *)
(* rewrites its title, requests its reload and aborts the flow as         *)
(* already_configured without creating an entry.                          *)
Backfilled(i, s) ==
    /\ entries'[i].unique_id = s
    /\ entries'[i].title = (IF entries[i].title = "Envoy" THEN "Envoy " \o s ELSE "Envoy")
    /\ Requested(calls', "async_reload", entries[i].entry_id)

C3_DiscoveryBackfillsAnyHostMatch ==
    [][\A f \in Flows, s \in Serials, h \in DiscoveryHosts :
          (async_step_zeroconf(f, s, h) /\ IdlessAt(h) # {}) =>
             /\ DiscoveryAborted(f)
             /\ \A i \in IdlessAt(h) : Backfilled(i, s)]_vars

Min(S) == CHOOSE i \in S : \A j \in S : i <= j

(* C3 as amended: when no non-ignored entry has unique id S, the first    *)
(* non-ignored entry without unique id whose stored host is H gains the   *)
(* unique id S, has its title rewritten and its reload requested, no      *)
(* other entry changes, and the flow aborts as already_configured         *)
(* without creating an entry.                                             *)
C3_DiscoveryBackfillsUnmatched ==
    [][\A f \in Flows, s \in Serials, h \in DiscoveryHosts :
          (async_step_zeroconf(f, s, h) /\ OwnersOf(s) = {} /\ IdlessAt(h) # {}) =>
             /\ DiscoveryAborted(f)
             /\ Backfilled(Min(IdlessAt(h)), s)
             /\ entries'[Min(IdlessAt(h))].data = entries[Min(IdlessAt(h))].data
             /\ \A j \in 1..Len(entries) : j # Min(IdlessAt(h)) => entries'[j] = entries[j]]_vars

(* A state the backfill has produced *)
C3_Witness ==
    /\ result.op = "zeroconf" /\ AbortedAlreadyConfigured(result)
    /\ Len(calls) = 2
    /\ calls[1].fn = "async_update_entry" /\ calls[1].kw = {"title", "unique_id"}
    /\ \E i \in Configured : /\ entries[i].entry_id = calls[1].entry_id
                             /\ HasUniqueId(entries[i])
                             /\ entries[i].title = EnvoyTitle(entries[i].unique_id)

(* The position of the first call of fn on entry eid in cs; 0 if none *)
CallIndex(cs, fn, eid) ==
    LET S == {n \in 1..Len(cs) : cs[n].fn = fn /\ cs[n].entry_id = eid}
    IN IF S = {} THEN 0 ELSE CHOOSE n \in S : \A m \in S : n <= m

(* C13: in the discovery step a reload of an entry is requested if and    *)
(* only if that entry was updated in the step, and the update comes       *)
(* before the request; an entry with the discovered unique id that        *)
(* already stores the discovered host, or whose stored host and the       *)
(* discovered one are not both IPv4 or both IPv6 (a stored hostname       *)
(* included), is left unchanged and gets no reload.                       *)
C13_ReloadOnlyAfterUpdate ==
    [][\A f \in Flows, s \in Serials, h \in DiscoveryHosts :
          async_step_zeroconf(f, s, h) =>
             /\ Len(entries') = Len(entries)
             /\ \A i \in 1..Len(entries) :
                   LET eid == entries[i].entry_id
                       updated == CallIndex(calls', "async_update_entry", eid)
                       reloaded == CallIndex(calls', "async_reload", eid)
                   IN /\ (reloaded # 0) <=> (updated # 0)
                      /\ (updated # 0) <=> (entries'[i] # entries[i])
                      /\ (reloaded # 0) => updated < reloaded
             /\ \A n \in 1..Len(calls') : calls'[n].entry_id \in EntryIds(entries)
             /\ \A i \in OwnersOf(s) :
                   (\/ entries[i].data[CONF_HOST] = h
                    \/ ~BothIPv4OrBothIPv6(entries[i].data[CONF_HOST], h))
                   => /\ entries'[i] = entries[i]
                      /\ ~Requested(calls', "async_reload", entries[i].entry_id)]_vars

(* A discovery event ended at an entry it had nothing to update in: every *)
(* configured entry stores an address that no discovery announces, so the *)
(* entry with the discovered unique id stores a hostname or an address of *)
(* the other IP version.                                                  *)
C13_Witness ==
    /\ result.op = "zeroconf" /\ AbortedAlreadyConfigured(result)
    /\ calls = <<>>
    /\ Configured # {}
    /\ \A i \in Configured : entries[i].data[CONF_HOST] \notin DiscoveryHosts
    /\ \E i \in Configured : entries[i].data[CONF_HOST] \in HostNames /\ HasUniqueId(entries[i])

(* The entries a step has changed *)
Changed == {i \in 1..Len(entries) : i > Len(entries') \/ entries'[i] # entries[i]}

HostUpdated(i, s, h) ==
    /\ entries[i].unique_id = s
    /\ entries[i].data[CONF_HOST] # h
    /\ entries'[i] = [entries[i] EXCEPT !.data[CONF_HOST] = h]

IdAttached(i, s, h) ==
    /\ entries[i].unique_id = None
    /\ entries[i].data[CONF_HOST] = h
    /\ entries'[i].unique_id = s
    /\ entries'[i].data = entries[i].data
    /\ entries'[i].entry_id = entries[i].entry_id

(* C15: a discovery event performs at most one reconciliation action: it  *)
(* changes at most one entry, by one host update or by one unique-id      *)
(* attachment and never both, whatever the number and the order of the    *)
(* entries in the store.                                                  *)
C15_DiscoveryChangesOneEntry ==
    [][\A f \in Flows, s \in Serials, h \in DiscoveryHosts :
          async_step_zeroconf(f, s, h) =>
             /\ Len(entries') = Len(entries)
             /\ Cardinality(Changed) <= 1
             /\ \A i \in Changed :
                   /\ ~entries[i].ignored
                   /\ HostUpdated(i, s, h) \/ IdAttached(i, s, h)
                   /\ ~(HostUpdated(i, s, h) /\ IdAttached(i, s, h))
             /\ Cardinality({n \in 1..Len(calls') : calls'[n].fn = "async_update_entry"}) <= 1
             /\ Cardinality({n \in 1..Len(calls') : calls'[n].fn = "async_reload"}) <= 1]_vars

(* A discovery event had two entries to reconcile, one by host and one by *)
(* unique id, and changed one: the unique id was attached to an entry     *)
(* while another entry, at another address of the same IP version, owns   *)
(* it.                                                                    *)
C15_Witness ==
    /\ result.op = "zeroconf" /\ AbortedAlreadyConfigured(result)
    /\ Len(calls) = 2 /\ calls[1].kw = {"title", "unique_id"}
    /\ \E i, j \in Configured :
          /\ i # j
          /\ entries[i].entry_id = calls[1].entry_id
          /\ HasUniqueId(entries[i])
          /\ entries[j].unique_id = entries[i].unique_id
          /\ entries[j].data[CONF_HOST] # entries[i].data[CONF_HOST]
          /\ BothIPv4OrBothIPv6(entries[j].data[CONF_HOST], entries[i].data[CONF_HOST])

-----------------------------------------------------------------------------
(* Properties of the user-form step *)

ConfiguredHosts ==
    {entries[i].data[CONF_HOST] : i \in {j \in Configured : CONF_HOST \in DOMAIN entries[j].data}}

(* C4: in a non-reauth flow, a submission whose host is the stored host   *)
(* of a non-ignored entry aborts as already_configured; the validation    *)
(* call is not started and no entry is created or modified.               *)
C4_DuplicateHostAborts ==
    [][\A f \in Flows, ui \in UserInputs :
          (/\ async_step_user(f, ui)
           /\ flows[f].source # SOURCE_REAUTH
           /\ ui[CONF_HOST] \in ConfiguredHosts) =>
             /\ AbortedAlreadyConfigured(result')
             /\ flows'[f].pc = "idle"
             /\ ~Requested(calls', "get_data", 0)
             /\ entries' = entries]_vars

(* A submission was refused for its host *)
C4_Witness ==
    /\ result.op = "user" /\ AbortedAlreadyConfigured(result)
    /\ calls = <<>>
    /\ ConfiguredHosts # {}

(* The error code the form is to show for a failure of the validation call *)
ErrorCodeFor(failure) ==
    CASE failure \in {"ConnectError", "EnvoyError"} -> "cannot_connect"
      [] failure = "EnlightenError" -> "invalid_auth"
      [] OTHER -> "unknown"

(* C5: every failure of the validation call redisplays the form with      *)
(* exactly one error code (cannot_connect, invalid_auth or unknown by the *)
(* kind of failure); the flow stays at its form and the entry store is    *)
(* unchanged, with no update, reload or creation requested.               *)
C5_ValidationFailureShowsError ==
    [][\A f \in Flows, o \in GetDataOutcomes \ {"ok"} :
          validate_input(f, o) =>
             /\ result'.type = "form"
             /\ DOMAIN result'.errors = {"base"}
             /\ result'.errors["base"] = ErrorCodeFor(o)
             /\ flows'[f].pc = "form"
             /\ entries' = entries
             /\ calls' = <<>>]_vars

(* The form was redisplayed after a connection failure *)
C5_Witness ==
    /\ result.op = "validate" /\ result.type = "form"
    /\ result.errors = [k \in {"base"} |-> "cannot_connect"]
    /\ \E f \in Flows : flows[f].pc = "form"

(* C6: when validation fails, the redisplayed form carries the host,      *)
(* serial and username the user entered.                                  *)
C6_ErrorFormKeepsEnteredValues ==
    [][\A f \in Flows, o \in GetDataOutcomes \ {"ok"} :
          validate_input(f, o) =>
             /\ result'.schema.host_default = flows[f].user_input[CONF_HOST]
             /\ result'.schema.serial_default = flows[f].user_input[CONF_SERIAL]
             /\ result'.schema.username_default = flows[f].user_input[CONF_USERNAME]]_vars

(* The entry a step has just created is the last of the store *)
Created == entries'[Len(entries')]

NamedAfter(e, serial) ==
    /\ e.title = "Envoy " \o serial
    /\ e.data[CONF_NAME] = "Envoy " \o serial
    /\ e.unique_id = serial

NamedGeneric(e) ==
    /\ e.title = "Envoy"
    /\ e.data[CONF_NAME] = "Envoy"
    /\ e.unique_id = None

(* C7 as claimed: in a non-reauth flow with no prior unique id, a         *)
(* successful validation always creates an entry: titled and named        *)
(* "Envoy {serial}" with that unique id when the serial can be fetched,   *)
(* "Envoy" with no unique id when it cannot.                              *)
C7_ValidationAlwaysCreates ==
    [][\A f \in Flows, o \in SerialOutcomes :
          async_set_unique_id_from_envoy(f, o) =>
             /\ result'.type = "create_entry"
             /\ IF o \in Serials THEN NamedAfter(Created, o) ELSE NamedGeneric(Created)]_vars

(* C7 as amended: the entry is created titled and named "Envoy {serial}"  *)
(* with that unique id when the serial can be fetched and no configured   *)
(* entry has it as unique id yet, and "Envoy" with no unique id when no   *)
(* serial can be fetched; the created entry stores the submitted host.    *)
C7_ValidationCreatesUnlessClaimed ==
    [][\A f \in Flows, o \in SerialOutcomes :
          (/\ async_set_unique_id_from_envoy(f, o)
           /\ o \in Serials => OwnersOf(o) = {}) =>
             /\ result'.type = "create_entry"
             /\ Cardinality(ConfiguredIn(entries')) = Cardinality(Configured) + 1
             /\ ~Created.ignored
             /\ Created.data[CONF_HOST] = flows[f].user_input[CONF_HOST]
             /\ IF o \in Serials THEN NamedAfter(Created, o) ELSE NamedGeneric(Created)]_vars

(* An entry was created from a fetched serial *)
C7_Witness ==
    /\ result.op = "fetch" /\ result.type = "create_entry"
    /\ calls # <<>> /\ calls[Len(calls)].fn = "async_create_entry"
    /\ \E i \in Configured :
          /\ entries[i].entry_id = calls[Len(calls)].entry_id
          /\ HasUniqueId(entries[i])
          /\ entries[i].title = EnvoyTitle(entries[i].unique_id)
          /\ entries[i].data[CONF_NAME] = entries[i].title

C12_UnmatchedDiscoveryLocksHost ==
    [][\A f \in Flows :
          /\ \A s \in Serials, h \in DiscoveryHosts :
                (async_step_zeroconf(f, s, h) /\ OwnersOf(s) = {} /\ IdlessAt(h) = {}) =>
                   /\ entries' = entries
                   /\ calls' = <<>>
                   /\ result'.type = "form"
                   /\ result'.schema.host_in = {h}
                   /\ flows'[f].pc = "form"
                   /\ flows'[f].source = SOURCE_ZEROCONF
                   /\ flows'[f].ip_address = h
                   /\ flows'[f].unique_id = s
          /\ (flows[f].source = SOURCE_ZEROCONF /\ flows'[f].pc # "idle") =>
                   /\ flows'[f].ip_address = flows[f].ip_address
                   /\ flows'[f].unique_id = flows[f].unique_id
          /\ (/\ flows[f].source = SOURCE_ZEROCONF
              /\ flows'[f].pc = "idle"
              /\ result'.type = "create_entry") =>
                   /\ Created.data[CONF_HOST] = flows[f].ip_address
                   /\ Created.unique_id = flows[f].unique_id
                   /\ \A i \in 1..(Len(entries') - 1) : entries'[i] \in Range(entries)]_vars

(* A discovery flow created the entry of the address it announced: only  *)
(* a flow that had its unique id before the validation creates the entry  *)
(* without the serial fetch.                                              *)
C12_Witness ==
    /\ result.op = "validate" /\ result.type = "create_entry"
    /\ calls # <<>> /\ calls[Len(calls)].fn = "async_create_entry"
    /\ \E i \in Configured :
          /\ entries[i].entry_id = calls[Len(calls)].entry_id
          /\ entries[i].data[CONF_HOST] \in DiscoveryHosts
          /\ entries[i].unique_id \in Serials

(* The step of flow f is suspended at an await, past the duplicate-host   *)
(* check, with host h submitted                                           *)
InFlight(f, h) ==
    /\ flows[f].pc \in {"validating", "fetching"}
    /\ flows[f].reauth_entry = 0
    /\ flows[f].user_input[CONF_HOST] = h

(* C16: when two non-reauth flows have submitted the same host and both   *)
(* passed the duplicate-host check before either created an entry, at     *)
(* most one of them creates an entry for that host and the other aborts   *)
(* as already_configured: a flow resuming after the other has created the *)
(* entry of that host does not create one.                                *)
C16_OneCreationPerSubmittedHost ==
    [][\A f \in Flows, h \in TypedHosts :
          (/\ InFlight(f, h)
           /\ h \in ConfiguredHosts
           /\ flows'[f].pc = "idle") =>
             /\ AbortedAlreadyConfigured(result')
             /\ Len(entries') = Len(entries)]_vars

(* C9: in a reauth flow, a submission that validates overwrites the       *)
(* target entry's data with the submitted data and aborts as              *)
(* reauth_successful: the number of entries is unchanged, no other entry  *)
(* is modified, the target keeps its unique id and title, and the serial  *)
(* fetch is not attempted.                                                *)
C9_ReauthRefreshesInPlace ==
    [][\A f \in Flows :
          (validate_input(f, "ok") /\ flows[f].source = SOURCE_REAUTH) =>
             /\ result'.type = "abort" /\ result'.reason = "reauth_successful"
             /\ flows'[f].pc = "idle"
             /\ ~Requested(calls', "get_full_serial_number", 0)
             /\ Len(entries') = Len(entries)
             /\ \A i \in 1..Len(entries) :
                   IF entries[i].entry_id = flows[f].reauth_entry
                   THEN /\ \A k \in DOMAIN flows[f].user_input :
                              entries'[i].data[k] = flows[f].user_input[k]
                        /\ DOMAIN entries'[i].data = DOMAIN flows[f].user_input \cup {CONF_NAME}
                        /\ entries'[i].unique_id = entries[i].unique_id
                        /\ entries'[i].title = entries[i].title
                        /\ entries'[i].entry_id = entries[i].entry_id
                        /\ entries'[i].ignored = entries[i].ignored
                   ELSE entries'[i] = entries[i]]_vars

(* A reauth submission succeeded with another entry in the store *)
C9_Witness ==
    /\ result.op = "validate" /\ result.type = "abort" /\ result.reason = "reauth_successful"
    /\ calls = <<Call("async_update_entry", calls[1].entry_id, {"data"})>>
    /\ Len(entries) = 2

-----------------------------------------------------------------------------
(* Properties of the names of the entries *)

(* C17: from an empty store, after any sequence of discovery events,      *)
(* user-form submissions and reauth submissions, the title of every       *)
(* configured entry is "Envoy {unique id}" when it has a unique id and    *)
(* "Envoy" when it has none.                                              *)
C17_TitleFollowsUniqueId ==
    \A i \in Configured :
        entries[i].title = (IF HasUniqueId(entries[i])
                            THEN "Envoy " \o entries[i].unique_id
                            ELSE "Envoy")

(* A discovery event gave its unique id and title to one of two entries   *)
(* that had none                                                          *)
C17_Witness ==
    /\ result.op = "zeroconf" /\ AbortedAlreadyConfigured(result)
    /\ Len(calls) = 2 /\ calls[1].kw = {"title", "unique_id"}
    /\ \E i, j \in Configured :
          /\ entries[i].entry_id = calls[1].entry_id
          /\ HasUniqueId(entries[i]) /\ entries[i].title # ENVOY
          /\ entries[j].unique_id = None /\ entries[j].title = ENVOY

(* C18: from an empty store, after any sequence of discovery events,      *)
(* user-form submissions and reauth submissions, the name stored in the   *)
(* data of every configured entry equals the entry's title.               *)
C18_NameEqualsTitle ==
    \A i \in Configured :
        CONF_NAME \in DOMAIN entries[i].data => entries[i].data[CONF_NAME] = entries[i].title

-----------------------------------------------------------------------------
(* Properties of the options step *)

(* C10: a submitted options mapping is persisted as the options record    *)
(* exactly (same keys, same values, the selected disabled endpoints       *)
(* included) and the step ends successfully; nothing of the earlier       *)
(* record is carried over, so submitting a mapping again changes nothing. *)
C10_OptionsPersistedVerbatim ==
    [][\A ui \in OptionInputs :
          options_async_step_user(ui) =>
             /\ options' = ui
             /\ DOMAIN options' = DOMAIN ui
             /\ result'.type = "create_entry"]_vars

(* A submission replaced the older record with one that selects endpoints *)
C10_Witness ==
    /\ result.op = "options" /\ result.type = "create_entry"
    /\ "disabled_endpoints" \in DOMAIN options
    /\ options["disabled_endpoints"] = DOMAIN optional_endpoints
    /\ "scan_inverters" \notin DOMAIN options

(* The catalog entries flagged optional, under the names the form offers *)
OptionalOfCatalog ==
    {"endpoint_" \o k : k \in {c \in DOMAIN ENVOY_ENDPOINTS : ENVOY_ENDPOINTS[c].optional}}

StoredDisabled(opts) ==
    IF "disabled_endpoints" \in DOMAIN opts THEN opts["disabled_endpoints"] ELSE {}

(* C14: displaying the options form leaves the options record unchanged;  *)
(* the pre-selected disabled endpoints are exactly the stored disabled    *)
(* endpoints that are selectable, every pre-selected value is one of the  *)
(* selectable choices, and the selectable choices are exactly the catalog *)
(* entries flagged optional.                                              *)
C14_OptionsFormPreselection ==
    [][options_async_step_init =>
          /\ options' = options
          /\ entries' = entries
          /\ result'.type = "form"
          /\ result'.schema.selectable_endpoints = OptionalOfCatalog
          /\ result'.schema.suggested_disabled_endpoints =
                StoredDisabled(options) \cap result'.schema.selectable_endpoints
          /\ result'.schema.suggested_disabled_endpoints \subseteq
                result'.schema.selectable_endpoints]_vars

(* The form was shown over a record that stores an endpoint the catalog   *)
(* does not offer                                                         *)
C14_Witness ==
    /\ result.op = "options" /\ result.type = "form"
    /\ StoredDisabled(options) \ OptionalOfCatalog # {}
    /\ result.schema.suggested_disabled_endpoints # {}
    /\ result.schema.suggested_disabled_endpoints # StoredDisabled(options)

=============================================================================
